---- MODULE Spec2Model ----
(***************************************************************************)
(* Resilience layer of elastic-rag: the CircuitBreaker of                  *)
(* src/resilience/circuit_breaker.py, called by concurrent threads.        *)
(*                                                                         *)
(* The breaker's lock (threading.RLock) makes each `with self._lock:`      *)
(* block one atomic step.  CircuitBreaker.call is therefore three steps:   *)
(*   call(t)          the locked gate check (lines 101-128); an admitted   *)
(*                    caller leaves it with func started            *)
(*   func_returns(t)  func returned; _on_success under the lock            *)
(*   func_raises(t,e) func raised e; _on_failure under the lock; raise e   *)
(* Between a caller's gate step and its outcome step any other thread may  *)
(* run, and the clock may advance.                                         *)
(***************************************************************************)
EXTENDS Integers, FiniteSets, Sequences, TLC

(* ---------------- bounds of the model ---------------- *)
NThreads == 2
MaxThreshold == 3
MaxTimeout == 2
MaxHalfOpen == 2
MaxFailureCount == 5
MaxResets == 2
MaxReadDelay == 2

Threads == 1..NThreads
\* the clock saturates one tick past the longest cooldown (see Tick)
MaxTime == MaxTimeout + 1

(* ---------------- CircuitState (lines 29-40) ---------------- *)
CLOSED == "closed"
OPEN == "open"
HALF_OPEN == "half_open"
CircuitState == {CLOSED, OPEN, HALF_OPEN}

\* Python's None for last_failure_time (a timestamp is a natural number)
None == -1

(* ---------------- exceptions ---------------- *)
\* what reaches the caller of call(): no exception, or an exception object
NoException == [type |-> "none", msg |-> "", retry |-> 0]

\* exceptions the wrapped operation raises (the tests' failing functions)
OpExceptions ==
    { [type |-> "RuntimeError", msg |-> "Service unavailable", retry |-> 0],
      [type |-> "ValueError", msg |-> "Custom error message", retry |-> 0] }

\* CircuitBreakerError raised at lines 115-118; retry is the {remaining} figure
OpenError(remaining) ==
    [type |-> "CircuitBreakerError", msg |-> "Circuit breaker is OPEN", retry |-> remaining]

\* CircuitBreakerError raised at lines 125-128
HalfOpenLimitError ==
    [type |-> "CircuitBreakerError", msg |-> "HALF_OPEN max calls exceeded", retry |-> 0]

VARIABLES
    state,                \* self.state
    failure_count,        \* self.failure_count
    last_failure_time,    \* self.last_failure_time (None or a clock value)
    half_open_calls,      \* self.half_open_calls
    failure_threshold,    \* self.failure_threshold (configuration)
    timeout,              \* self.timeout (configuration)
    half_open_max_calls,  \* self.half_open_max_calls (configuration)
    now,                  \* datetime.now()
    pc,                   \* per thread: where its latest call() stands
    invoked,              \* per thread: func was invoked by its latest call()
    op_exc,               \* per thread: the exception func raised in its latest call()
    exc,                  \* per thread: the exception its latest call() raised to the caller
    episode,              \* history: "fresh" since construction or reset(), "tripped" since
                          \* an opening event, "recovered" since a HALF_OPEN episode closed
    pattern,              \* history: shape of the sequence of recorded outcomes
    resets,               \* history: reset() calls made in a row (counted up to MaxResets)
    trial,                \* history, per thread: its operation in flight was admitted as a
                          \* trial of the HALF_OPEN episode that is going on
    trials,               \* history: operations admitted in the HALF_OPEN episode going on
    tally,                \* history: failures recorded since construction or reset(), None
                          \* once a success was recorded
    es_env,               \* the search-engine cluster as a probe finds it
    lm_env,               \* per run: the LM endpoint as a probe finds it
    startup_complete,     \* per run: HealthProbes.startup_complete
    result,               \* per run: what the latest probe call gave its caller
    llm,                  \* per client: its circuit_breaker attribute (an object id, 0 before __init__)
    heap,                 \* the CircuitBreaker objects the clients constructed, by object id
    cpc,                  \* per client: "provider" while litellm.completion runs for it
    reply,                \* per client: what its latest chat_completion gave the caller
    response              \* what the latest POST /query/ was answered with

breaker == <<state, failure_count, last_failure_time, half_open_calls>>
config == <<failure_threshold, timeout, half_open_max_calls>>
callers == <<pc, invoked, op_exc, exc>>
history == <<episode, pattern, resets, trial, trials, tally>>
probes == <<es_env, lm_env, startup_complete, result>>
clients == <<llm, heap, cpc, reply, response>>
vars == <<state, failure_count, last_failure_time, half_open_calls,
          failure_threshold, timeout, half_open_max_calls, now,
          pc, invoked, op_exc, exc, episode, pattern, resets, trial, trials, tally,
          es_env, lm_env, startup_complete, result,
          llm, heap, cpc, reply, response>>

(* ---------------- helpers of the breaker ---------------- *)

\* elapsed.total_seconds() of lines 149-150 and 109-113
Elapsed == now - last_failure_time

\* variant: the comparison with the timeout turned round
should_attempt_reset_inverted ==
    IF last_failure_time = None THEN TRUE ELSE Elapsed <= timeout

\* variant: strictly greater than the timeout
should_attempt_reset_strict ==
    IF last_failure_time = None THEN TRUE ELSE Elapsed > timeout

\* CircuitBreaker._should_attempt_reset (lines 140-150)
should_attempt_reset ==
    IF last_failure_time = None THEN TRUE ELSE Elapsed >= timeout

\* variant: the remaining wait is not floored at 0
Remaining_unfloored(clock) ==
    LET elapsed == IF last_failure_time # None THEN clock - last_failure_time ELSE 0
    IN timeout - elapsed

\* remaining = max(0, self.timeout - elapsed) (lines 109-114); clock is the
\* value of the datetime.now() of line 110, read after the one of line 149
Remaining(clock) ==
    LET elapsed == IF last_failure_time # None THEN clock - last_failure_time ELSE 0
        r == timeout - elapsed
    IN IF r > 0 THEN r ELSE 0

\* seconds the clock can advance between the datetime.now() of line 149 and
\* the one of line 110, up to MaxReadDelay and not past MaxTime (see Tick)
ReadDelays == {d \in 0..MaxReadDelay : now + d <= MaxTime}

\* variant: the gate closes one call early
HalfOpenLimitReached_early(n) == n + 1 >= half_open_max_calls

\* variant: the gate lets one call too many through
HalfOpenLimitReached_late(n) == n > half_open_max_calls

\* line 123: self.half_open_calls >= self.half_open_max_calls (gate)
HalfOpenLimitReached(n) == n >= half_open_max_calls

\* variant: closes one success late
RecoveryComplete_late(n) == n > half_open_max_calls

\* line 166: self.half_open_calls >= self.half_open_max_calls (closing)
RecoveryComplete(n) == n >= half_open_max_calls

\* variant: opens one failure late
ThresholdReached_late(n) == n > failure_threshold

\* line 209: self.failure_count >= self.failure_threshold
ThresholdReached(n) == n >= failure_threshold

\* variant: a success leaves the count as it is (cumulative failures)
CountAfterClosedSuccess_kept(n) == n

\* lines 178-182: failure count after a success recorded while CLOSED
CountAfterClosedSuccess(n) == IF n > 0 THEN 0 ELSE n

\* variant: the failure is wrapped in a new RuntimeError carrying its message
Reraise_wrapped(e) == [type |-> "RuntimeError", msg |-> e.msg, retry |-> 0]

\* line 138: raise e
Reraise(e) == e

(* ---------------- HealthProbes (src/resilience/health_probes.py) ---------------- *)

\* The probes are run twice side by side: the two runs get the same calls
\* and the same search-engine cluster, and each has its own LM endpoint.
Runs == {"a", "b"}

\* what es.cluster.health() meets: a cluster status, or no answer
EsStates == {"green", "yellow", "red", "unreachable", "timeout"}

\* what client.get(base_url/models) meets: an HTTP status, or no answer
LmStates == {"200", "503", "unreachable", "timeout"}

\* outcome of a call: a returned boolean, or an exception
Returns(v) == [raised |-> FALSE, value |-> v]
Raises == [raised |-> TRUE, value |-> FALSE]

\* variant: without the try/except of lines 191 and 207-209
check_elasticsearch_uncaught(es) ==
    IF es \in {"unreachable", "timeout"}
    THEN Raises
    ELSE Returns(es \in {"green", "yellow"})

\* HealthProbes._check_elasticsearch (lines 179-209)
check_elasticsearch(es) ==
    IF es \in {"unreachable", "timeout"}
    THEN Returns(FALSE)
    ELSE Returns(es \in {"green", "yellow"})

\* HealthProbes._check_lmstudio (lines 211-247)
check_lmstudio(lm) ==
    IF lm \in {"unreachable", "timeout"}
    THEN Returns(FALSE)
    ELSE Returns(lm = "200")

\* "healthy" if ... else "unhealthy" (lines 105, 113, 123)
StatusOf(ok) == IF ok THEN "healthy" ELSE "unhealthy"

\* variant: one healthy dependency is enough
OverallHealthy_either(es_healthy, lm_healthy) == TRUE /\ (es_healthy \/ lm_healthy)

\* overall_healthy of lines 100, 108 and 116
OverallHealthy(es_healthy, lm_healthy) == (TRUE /\ es_healthy) /\ lm_healthy

\* an exception leaves the probe method instead of a result
Escaped(name) ==
    [probe |-> name, raised |-> TRUE, status |-> "none", es |-> "none", lm |-> "none",
     error |-> "", es_checked |-> TRUE, lm_checked |-> FALSE]

\* the state of a run before any probe was called
NoResult ==
    [probe |-> "none", raised |-> FALSE, status |-> "none", es |-> "none", lm |-> "none",
     error |-> "", es_checked |-> FALSE, lm_checked |-> FALSE]

\* HealthProbes.liveness (lines 52-75)
LivenessResult ==
    [probe |-> "liveness", raised |-> FALSE, status |-> "healthy", es |-> "none", lm |-> "none",
     error |-> "", es_checked |-> FALSE, lm_checked |-> FALSE]

\* HealthProbes.readiness (lines 77-127)
ReadinessResult(es, lm) ==
    LET es_healthy == check_elasticsearch(es)
        lm_healthy == check_lmstudio(lm)
    IN IF es_healthy.raised
       THEN Escaped("readiness")
       ELSE IF lm_healthy.raised
            THEN [Escaped("readiness") EXCEPT !.lm_checked = TRUE]
            ELSE [probe |-> "readiness", raised |-> FALSE,
                  status |-> StatusOf(OverallHealthy(es_healthy.value, lm_healthy.value)),
                  es |-> StatusOf(es_healthy.value),
                  lm |-> StatusOf(lm_healthy.value),
                  error |-> "", es_checked |-> TRUE, lm_checked |-> TRUE]

\* the healthy answer of startup (lines 173-177)
StartupHealthy(checked) ==
    [probe |-> "startup", raised |-> FALSE, status |-> "healthy", es |-> "none", lm |-> "none",
     error |-> "", es_checked |-> checked, lm_checked |-> FALSE]

\* the unhealthy answer of startup (lines 164-171)
StartupUnhealthy(message) ==
    [probe |-> "startup", raised |-> FALSE, status |-> "unhealthy", es |-> "none", lm |-> "none",
     error |-> message, es_checked |-> TRUE, lm_checked |-> FALSE]

\* variant: the flag follows every check (a cache, not a latch)
StartupOutcome_recheck(complete, es) ==
    LET es_healthy == check_elasticsearch(es)
    IN IF es_healthy.raised
       THEN [complete |-> FALSE, result |-> StartupUnhealthy("check raised")]
       ELSE IF ~es_healthy.value
            THEN [complete |-> FALSE,
                  result |-> StartupUnhealthy("Elasticsearch not accessible")]
            ELSE [complete |-> TRUE, result |-> StartupHealthy(TRUE)]

\* variant: the flag is set before the check is made
StartupOutcome_early_latch(complete, es) ==
    IF ~complete
    THEN LET es_healthy == check_elasticsearch(es)
         IN IF es_healthy.raised
            THEN [complete |-> TRUE, result |-> StartupUnhealthy("check raised")]
            ELSE IF ~es_healthy.value
                 THEN [complete |-> TRUE,
                       result |-> StartupUnhealthy("Elasticsearch not accessible")]
                 ELSE [complete |-> TRUE, result |-> StartupHealthy(TRUE)]
    ELSE [complete |-> TRUE, result |-> StartupHealthy(FALSE)]

\* HealthProbes.startup (lines 129-177): the new flag and the answer
StartupOutcome(complete, es) ==
    IF ~complete
    THEN LET es_healthy == check_elasticsearch(es)
         IN IF es_healthy.raised
            THEN [complete |-> FALSE, result |-> StartupUnhealthy("check raised")]
            ELSE IF ~es_healthy.value
                 THEN [complete |-> FALSE,
                       result |-> StartupUnhealthy("Elasticsearch not accessible")]
                 ELSE [complete |-> TRUE, result |-> StartupHealthy(TRUE)]
    ELSE [complete |-> TRUE, result |-> StartupHealthy(FALSE)]

\* HealthProbes.__init__ (lines 44-50), with the dependencies in any state
ProbesInit ==
    /\ es_env \in EsStates
    /\ lm_env \in [Runs -> LmStates]
    /\ startup_complete = [r \in Runs |-> FALSE]
    /\ result = [r \in Runs |-> NoResult]

\* HealthProbes.__init__ (lines 44-50), no probe called and both dependencies up
ProbesIdle ==
    /\ es_env = "green"
    /\ lm_env = [r \in Runs |-> "200"]
    /\ startup_complete = [r \in Runs |-> FALSE]
    /\ result = [r \in Runs |-> NoResult]

(* ---------------- LLMInterface (src/ai_models/litellm_interface.py) ---------------- *)

\* the two clients of test_circuit_breaker_with_multiple_instances
Clients == {"llm1", "llm2"}

\* no LLMInterface constructed yet
ClientsIdle ==
    /\ llm = [c \in Clients |-> 0]
    /\ heap = << >>
    /\ cpc = [c \in Clients |-> "idle"]
    /\ reply = [c \in Clients |-> [kind |-> "none", msg |-> "", cause |-> NoException]]
    /\ response = [status |-> 0, error |-> "none", detail |-> "", retry_after |-> 0]

(* ---------------- construction ---------------- *)

\* no HALF_OPEN episode is going on, no outcome was recorded
NoTrials ==
    /\ trial = [t \in Threads |-> FALSE]
    /\ trials = 0
    /\ tally = 0

\* the breaker's fields right after construction (lines 73-76)
InitialBreaker == <<CLOSED, 0, None, 0>>

\* CircuitBreaker.__init__ (lines 66-79); the configuration is any the
\* settings (or the tests' patched settings, timeout 0 included) can give
Init ==
    /\ failure_threshold \in 1..MaxThreshold
    /\ timeout \in 0..MaxTimeout
    /\ half_open_max_calls \in 1..MaxHalfOpen
    /\ state = CLOSED
    /\ failure_count = 0
    /\ last_failure_time = None
    /\ half_open_calls = 0
    /\ now = 0
    /\ pc = [t \in Threads |-> "idle"]
    /\ invoked = [t \in Threads |-> FALSE]
    /\ op_exc = [t \in Threads |-> NoException]
    /\ exc = [t \in Threads |-> NoException]
    /\ episode = "fresh"
    /\ pattern = "clean"
    /\ resets = 0
    /\ NoTrials
    /\ ProbesIdle
    /\ ClientsIdle

(* ---------------- CircuitBreaker.call: the gate ---------------- *)

\* what the caller of a rejected call sees
Rejected(t, error) ==
    /\ pc' = [pc EXCEPT ![t] = "rejected"]
    /\ invoked' = [invoked EXCEPT ![t] = FALSE]
    /\ op_exc' = [op_exc EXCEPT ![t] = NoException]
    /\ exc' = [exc EXCEPT ![t] = error]

\* the lock is released and func is invoked (line 132)
Admitted(t) ==
    /\ pc' = [pc EXCEPT ![t] = "running"]
    /\ invoked' = [invoked EXCEPT ![t] = TRUE]
    /\ op_exc' = [op_exc EXCEPT ![t] = NoException]
    /\ exc' = [exc EXCEPT ![t] = NoException]

\* variant: the lock is held until the operation has ended
call_holds_lock(t) ==
    /\ pc[t] # "running"
    /\ \A u \in Threads : pc[u] # "running"
    /\ IF state = OPEN
       THEN IF should_attempt_reset
            THEN \* lines 105-107, then the half-open check of lines 121-128
                 /\ state' = HALF_OPEN
                 /\ half_open_calls' = 0
                 /\ UNCHANGED <<failure_count, last_failure_time, now>>
                 /\ IF HalfOpenLimitReached(0)
                    THEN /\ Rejected(t, HalfOpenLimitError)
                         /\ trial' = [u \in Threads |-> FALSE]
                         /\ trials' = 0
                    ELSE /\ Admitted(t)
                         /\ trial' = [u \in Threads |-> u = t]
                         /\ trials' = 1
            ELSE \* lines 109-118: the clock is read a second time
                 /\ UNCHANGED <<breaker, trial, trials>>
                 /\ \E d \in ReadDelays :
                       /\ now' = now + d
                       /\ Rejected(t, OpenError(Remaining(now + d)))
       ELSE /\ UNCHANGED <<breaker, now>>
            /\ IF state = HALF_OPEN /\ HalfOpenLimitReached(half_open_calls)
               THEN /\ Rejected(t, HalfOpenLimitError)
                    /\ UNCHANGED <<trial, trials>>
               ELSE /\ Admitted(t)
                    /\ trial' = [trial EXCEPT ![t] = (state = HALF_OPEN)]
                    /\ trials' = IF state = HALF_OPEN THEN trials + 1 ELSE trials
    /\ resets' = 0
    /\ UNCHANGED <<config, episode, pattern, tally, probes, clients>>

\* variant: a rejection is taken for a failure of the service and
\* starts the cooldown again
call_rejection_restarts_cooldown(t) ==
    /\ pc[t] # "running"
    /\ IF state = OPEN
       THEN IF should_attempt_reset
            THEN \* lines 105-107, then the half-open check of lines 121-128
                 /\ state' = HALF_OPEN
                 /\ half_open_calls' = 0
                 /\ UNCHANGED <<failure_count, last_failure_time, now>>
                 /\ IF HalfOpenLimitReached(0)
                    THEN /\ Rejected(t, HalfOpenLimitError)
                         /\ trial' = [u \in Threads |-> FALSE]
                         /\ trials' = 0
                    ELSE /\ Admitted(t)
                         /\ trial' = [u \in Threads |-> u = t]
                         /\ trials' = 1
            ELSE \* lines 109-118: the clock is read a second time
                 /\ last_failure_time' = now
                 /\ UNCHANGED <<state, failure_count, half_open_calls, trial, trials>>
                 /\ \E d \in ReadDelays :
                       /\ now' = now + d
                       /\ Rejected(t, OpenError(Remaining(now + d)))
       ELSE /\ UNCHANGED <<breaker, now>>
            /\ IF state = HALF_OPEN /\ HalfOpenLimitReached(half_open_calls)
               THEN /\ Rejected(t, HalfOpenLimitError)
                    /\ UNCHANGED <<trial, trials>>
               ELSE /\ Admitted(t)
                    /\ trial' = [trial EXCEPT ![t] = (state = HALF_OPEN)]
                    /\ trials' = IF state = HALF_OPEN THEN trials + 1 ELSE trials
    /\ resets' = 0
    /\ UNCHANGED <<config, episode, pattern, tally, probes, clients>>

\* lines 101-132
call(t) ==
    /\ pc[t] # "running"
    /\ IF state = OPEN
       THEN IF should_attempt_reset
            THEN \* lines 105-107, then the half-open check of lines 121-128
                 /\ state' = HALF_OPEN
                 /\ half_open_calls' = 0
                 /\ UNCHANGED <<failure_count, last_failure_time, now>>
                 /\ IF HalfOpenLimitReached(0)
                    THEN /\ Rejected(t, HalfOpenLimitError)
                         /\ trial' = [u \in Threads |-> FALSE]
                         /\ trials' = 0
                    ELSE /\ Admitted(t)
                         /\ trial' = [u \in Threads |-> u = t]
                         /\ trials' = 1
            ELSE \* lines 109-118: the clock is read a second time
                 /\ UNCHANGED <<breaker, trial, trials>>
                 /\ \E d \in ReadDelays :
                       /\ now' = now + d
                       /\ Rejected(t, OpenError(Remaining(now + d)))
       ELSE /\ UNCHANGED <<breaker, now>>
            /\ IF state = HALF_OPEN /\ HalfOpenLimitReached(half_open_calls)
               THEN /\ Rejected(t, HalfOpenLimitError)
                    /\ UNCHANGED <<trial, trials>>
               ELSE /\ Admitted(t)
                    /\ trial' = [trial EXCEPT ![t] = (state = HALF_OPEN)]
                    /\ trials' = IF state = HALF_OPEN THEN trials + 1 ELSE trials
    /\ resets' = 0
    /\ UNCHANGED <<config, episode, pattern, tally, probes, clients>>

(* ---------------- outcome handlers ---------------- *)

\* variant: closing forgets to zero half_open_calls
on_success_keeps_calls ==
    IF state = HALF_OPEN
    THEN IF RecoveryComplete(half_open_calls + 1)
         THEN /\ state' = CLOSED
              /\ failure_count' = 0
              /\ half_open_calls' = half_open_calls + 1
              /\ last_failure_time' = None
         ELSE /\ half_open_calls' = half_open_calls + 1
              /\ UNCHANGED <<state, failure_count, last_failure_time>>
    ELSE IF state = CLOSED
         THEN /\ failure_count' = CountAfterClosedSuccess(failure_count)
              /\ UNCHANGED <<state, half_open_calls, last_failure_time>>
         ELSE UNCHANGED breaker

\* variant: `else` in place of `elif self.state == CircuitState.CLOSED`
on_success_resets_when_open ==
    IF state = HALF_OPEN
    THEN IF RecoveryComplete(half_open_calls + 1)
         THEN /\ state' = CLOSED
              /\ failure_count' = 0
              /\ half_open_calls' = 0
              /\ last_failure_time' = None
         ELSE /\ half_open_calls' = half_open_calls + 1
              /\ UNCHANGED <<state, failure_count, last_failure_time>>
    ELSE /\ failure_count' = CountAfterClosedSuccess(failure_count)
         /\ UNCHANGED <<state, half_open_calls, last_failure_time>>

\* variant: a success recorded while OPEN closes the breaker
on_success_closes_when_open ==
    IF state = HALF_OPEN
    THEN IF RecoveryComplete(half_open_calls + 1)
         THEN /\ state' = CLOSED
              /\ failure_count' = 0
              /\ half_open_calls' = 0
              /\ last_failure_time' = None
         ELSE /\ half_open_calls' = half_open_calls + 1
              /\ UNCHANGED <<state, failure_count, last_failure_time>>
    ELSE /\ state' = CLOSED
         /\ failure_count' = CountAfterClosedSuccess(failure_count)
         /\ UNCHANGED <<half_open_calls, last_failure_time>>

\* CircuitBreaker._on_success (lines 152-182)
on_success ==
    IF state = HALF_OPEN
    THEN IF RecoveryComplete(half_open_calls + 1)
         THEN /\ state' = CLOSED
              /\ failure_count' = 0
              /\ half_open_calls' = 0
              /\ last_failure_time' = None
         ELSE /\ half_open_calls' = half_open_calls + 1
              /\ UNCHANGED <<state, failure_count, last_failure_time>>
    ELSE IF state = CLOSED
         THEN /\ failure_count' = CountAfterClosedSuccess(failure_count)
              /\ UNCHANGED <<state, half_open_calls, last_failure_time>>
         ELSE UNCHANGED breaker

\* variant: a failed trial reopens without zeroing half_open_calls
on_failure_keeps_calls ==
    /\ failure_count' = failure_count + 1
    /\ last_failure_time' = now
    /\ IF state = HALF_OPEN
       THEN /\ state' = OPEN
            /\ UNCHANGED half_open_calls
       ELSE IF state = CLOSED
            THEN /\ state' = IF ThresholdReached(failure_count + 1) THEN OPEN ELSE CLOSED
                 /\ UNCHANGED half_open_calls
            ELSE UNCHANGED <<state, half_open_calls>>

\* variant: a failed trial is only counted, the breaker stays HALF_OPEN
on_failure_no_reopen ==
    /\ failure_count' = failure_count + 1
    /\ last_failure_time' = now
    /\ IF state = CLOSED
       THEN /\ state' = IF ThresholdReached(failure_count + 1) THEN OPEN ELSE CLOSED
            /\ UNCHANGED half_open_calls
       ELSE UNCHANGED <<state, half_open_calls>>

\* variant: failure_count += 1 without the lock, so that the update of a
\* concurrent caller can be lost
on_failure_lost_update ==
    /\ \E n \in {failure_count, failure_count + 1} : failure_count' = n
    /\ last_failure_time' = now
    /\ IF state = HALF_OPEN
       THEN /\ state' = OPEN
            /\ half_open_calls' = 0
       ELSE IF state = CLOSED
            THEN /\ state' = IF ThresholdReached(failure_count') THEN OPEN ELSE CLOSED
                 /\ UNCHANGED half_open_calls
            ELSE UNCHANGED <<state, half_open_calls>>

\* variant: a failure recorded while OPEN is dropped
on_failure_ignored_when_open ==
    IF state = OPEN
    THEN UNCHANGED breaker
    ELSE /\ failure_count' = failure_count + 1
         /\ last_failure_time' = now
         /\ IF state = HALF_OPEN
            THEN /\ state' = OPEN
                 /\ half_open_calls' = 0
            ELSE /\ state' = IF ThresholdReached(failure_count + 1) THEN OPEN ELSE CLOSED
                 /\ UNCHANGED half_open_calls

\* CircuitBreaker._on_failure (lines 184-214)
on_failure ==
    /\ failure_count' = failure_count + 1
    /\ last_failure_time' = now
    /\ IF state = HALF_OPEN
       THEN /\ state' = OPEN
            /\ half_open_calls' = 0
       ELSE IF state = CLOSED
            THEN /\ state' = IF ThresholdReached(failure_count + 1) THEN OPEN ELSE CLOSED
                 /\ UNCHANGED half_open_calls
            ELSE UNCHANGED <<state, half_open_calls>>

\* lines 132-134: result = func(...); self._on_success(); return result
func_returns(t) ==
    /\ pc[t] = "running"
    /\ on_success
    /\ pc' = [pc EXCEPT ![t] = "returned"]
    /\ episode' = IF state = HALF_OPEN /\ state' = CLOSED THEN "recovered" ELSE episode
    /\ pattern' = IF pattern = "failed" THEN "clean" ELSE pattern
    /\ resets' = 0
    /\ trial' = [u \in Threads |-> trial[u] /\ u # t /\ state' = HALF_OPEN]
    /\ trials' = IF state' = HALF_OPEN THEN trials ELSE 0
    /\ tally' = None
    /\ UNCHANGED <<config, now, invoked, op_exc, exc, probes, clients>>

\* lines 136-138: except Exception as e: self._on_failure(e); raise e
func_raises(t, e) ==
    /\ pc[t] = "running"
    /\ failure_count < MaxFailureCount
    /\ on_failure
    /\ pc' = [pc EXCEPT ![t] = "raised"]
    /\ op_exc' = [op_exc EXCEPT ![t] = e]
    /\ exc' = [exc EXCEPT ![t] = Reraise(e)]
    /\ episode' = IF \/ state = CLOSED /\ failure_count + 1 >= failure_threshold
                     \/ state = HALF_OPEN
                  THEN "tripped" ELSE episode
    /\ pattern' = IF pattern = "clean" THEN "failed" ELSE "repeated"
    /\ resets' = 0
    /\ trial' = [u \in Threads |-> trial[u] /\ u # t /\ state' = HALF_OPEN]
    /\ trials' = IF state' = HALF_OPEN THEN trials ELSE 0
    /\ tally' = IF tally = None THEN None ELSE tally + 1
    /\ UNCHANGED <<config, now, invoked, probes, clients>>

\* variant: the counters are zeroed but last_failure_time is left as it is
reset_keeps_last_failure ==
    /\ state' = CLOSED
    /\ failure_count' = 0
    /\ UNCHANGED last_failure_time
    /\ half_open_calls' = 0
    /\ episode' = "fresh"
    /\ pattern' = "clean"
    /\ resets' = IF resets < MaxResets THEN resets + 1 ELSE resets
    /\ trial' = [u \in Threads |-> FALSE]
    /\ trials' = 0
    /\ tally' = 0
    /\ UNCHANGED <<config, now, callers, probes, clients>>

\* CircuitBreaker.reset (lines 266-277)
reset ==
    /\ state' = CLOSED
    /\ failure_count' = 0
    /\ last_failure_time' = None
    /\ half_open_calls' = 0
    /\ episode' = "fresh"
    /\ pattern' = "clean"
    /\ resets' = IF resets < MaxResets THEN resets + 1 ELSE resets
    /\ trial' = [u \in Threads |-> FALSE]
    /\ trials' = 0
    /\ tally' = 0
    /\ UNCHANGED <<config, now, callers, probes, clients>>

(* ---------------- the clock ---------------- *)

\* datetime.now() advances by one second.  Only differences between now and
\* last_failure_time are ever read, so once the clock shows MaxTime the
\* origin is moved instead: last_failure_time goes back one second, and an
\* elapsed time of MaxTime (longer than every cooldown) stays as it is.
Tick ==
    /\ \/ /\ now < MaxTime
          /\ now' = now + 1
          /\ UNCHANGED last_failure_time
       \/ /\ now = MaxTime
          /\ last_failure_time # None
          /\ last_failure_time > 0
          /\ last_failure_time' = last_failure_time - 1
          /\ UNCHANGED now
    /\ UNCHANGED <<state, failure_count, half_open_calls, config, callers, history, probes, clients>>

Next ==
    \/ \E t \in Threads : call(t)
    \/ \E t \in Threads : func_returns(t)
    \/ \E t \in Threads : \E e \in OpExceptions : func_raises(t, e)
    \/ reset
    \/ Tick

Spec == Init /\ [][Next]_vars

\* The breaker's fields are public attributes: test_half_open_max_calls_limit
\* (tests/unit/test_circuit_breaker.py, lines 254-258) takes a new breaker
\* and writes state = HALF_OPEN, half_open_calls = half_open_max_calls.
HalfOpenAtLimitInit ==
    /\ failure_threshold \in 1..MaxThreshold
    /\ timeout \in 0..MaxTimeout
    /\ half_open_max_calls \in 1..MaxHalfOpen
    /\ state = HALF_OPEN
    /\ failure_count = 0
    /\ last_failure_time = None
    /\ half_open_calls = half_open_max_calls
    /\ now = 0
    /\ pc = [t \in Threads |-> "idle"]
    /\ invoked = [t \in Threads |-> FALSE]
    /\ op_exc = [t \in Threads |-> NoException]
    /\ exc = [t \in Threads |-> NoException]
    /\ episode = "fresh"
    /\ pattern = "clean"
    /\ resets = 0
    /\ NoTrials
    /\ ProbesIdle
    /\ ClientsIdle

\* the breaker used from the state that test sets up
HalfOpenAtLimitSpec == HalfOpenAtLimitInit /\ [][Next]_vars

TypeOK ==
    /\ state \in CircuitState
    /\ failure_count \in 0..MaxFailureCount
    /\ last_failure_time \in {None} \cup 0..MaxTime
    /\ half_open_calls \in 0..MaxHalfOpen
    /\ now \in 0..MaxTime
    /\ pc \in [Threads -> {"idle", "running", "returned", "raised", "rejected"}]
    /\ resets \in 0..MaxResets


(* ---------------- the probes' operations ---------------- *)

\* the probes touch nothing of the breaker and of its clients
breaker_side == <<breaker, config, now, callers, history, clients>>

\* HealthProbes.liveness (lines 52-75)
liveness ==
    /\ result' = [r \in Runs |-> LivenessResult]
    /\ UNCHANGED <<es_env, lm_env, startup_complete, breaker_side>>

\* HealthProbes.readiness (lines 77-127)
readiness ==
    /\ result' = [r \in Runs |-> ReadinessResult(es_env, lm_env[r])]
    /\ UNCHANGED <<es_env, lm_env, startup_complete, breaker_side>>

\* variant: startup also waits for the LM endpoint
startup_checks_lm ==
    /\ startup_complete' =
          [r \in Runs |-> StartupOutcome(startup_complete[r] /\ lm_env[r] = "200", es_env).complete
                             /\ lm_env[r] = "200"]
    /\ result' =
          [r \in Runs |-> IF lm_env[r] = "200"
                          THEN StartupOutcome(startup_complete[r], es_env).result
                          ELSE StartupUnhealthy("LM endpoint not accessible")]
    /\ UNCHANGED <<es_env, lm_env, breaker_side>>

\* HealthProbes.startup (lines 129-177)
startup ==
    /\ startup_complete' =
          [r \in Runs |-> StartupOutcome(startup_complete[r], es_env).complete]
    /\ result' = [r \in Runs |-> StartupOutcome(startup_complete[r], es_env).result]
    /\ UNCHANGED <<es_env, lm_env, breaker_side>>

\* HealthProbes.reset_startup (lines 249-256)
reset_startup ==
    /\ startup_complete' = [r \in Runs |-> FALSE]
    /\ UNCHANGED <<es_env, lm_env, result, breaker_side>>

\* the search-engine cluster changes its status, or stops answering
EsChanges ==
    /\ \E e \in EsStates \ {es_env} : es_env' = e
    /\ UNCHANGED <<lm_env, startup_complete, result, breaker_side>>

\* the LM endpoint of one run changes its answer, or stops answering
LmChanges ==
    /\ \E r \in Runs : \E l \in LmStates \ {lm_env[r]} :
          lm_env' = [lm_env EXCEPT ![r] = l]
    /\ UNCHANGED <<es_env, startup_complete, result, breaker_side>>

ProbesNext ==
    \/ liveness
    \/ readiness
    \/ startup
    \/ reset_startup
    \/ EsChanges
    \/ LmChanges

\* one breaker with the largest configuration of the model, never called,
\* beside probes that find their dependencies in any state
ProbesStart ==
    /\ failure_threshold = MaxThreshold
    /\ timeout = MaxTimeout
    /\ half_open_max_calls = MaxHalfOpen
    /\ state = CLOSED
    /\ failure_count = 0
    /\ last_failure_time = None
    /\ half_open_calls = 0
    /\ now = 0
    /\ pc = [t \in Threads |-> "idle"]
    /\ invoked = [t \in Threads |-> FALSE]
    /\ op_exc = [t \in Threads |-> NoException]
    /\ exc = [t \in Threads |-> NoException]
    /\ episode = "fresh"
    /\ pattern = "clean"
    /\ resets = 0
    /\ NoTrials
    /\ ProbesInit
    /\ ClientsIdle

\* the probes answering an orchestrator while the dependencies come and go
ProbesSpec == ProbesStart /\ [][ProbesNext]_vars

(* ---------------- CircuitBreaker as an object of the heap ---------------- *)

\* The clients' breakers are objects: the methods of CircuitBreaker are
\* written here as functions of the object (self) they are called on.

\* CircuitBreaker.__init__ (lines 73-76)
NewBreaker ==
    [state |-> CLOSED, failure_count |-> 0, last_failure_time |-> None, half_open_calls |-> 0]

\* variant: an OPEN breaker never holds a call back
ShouldAttemptReset_always(self) == TRUE

\* CircuitBreaker._should_attempt_reset (lines 140-150)
ShouldAttemptReset(self) ==
    IF self.last_failure_time = None THEN TRUE ELSE now - self.last_failure_time >= timeout

\* remaining = max(0, self.timeout - elapsed) (lines 109-114)
RemainingOf(self) ==
    LET elapsed == IF self.last_failure_time # None THEN now - self.last_failure_time ELSE 0
        r == timeout - elapsed
    IN IF r > 0 THEN r ELSE 0

\* the locked gate of CircuitBreaker.call (lines 101-128): the object after
\* it, and the CircuitBreakerError it raises (NoException: func is invoked)
Gate(self) ==
    IF self.state = OPEN
    THEN IF ShouldAttemptReset(self)
         THEN [self |-> [self EXCEPT !.state = HALF_OPEN, !.half_open_calls = 0],
               error |-> IF HalfOpenLimitReached(0) THEN HalfOpenLimitError ELSE NoException]
         ELSE [self |-> self, error |-> OpenError(RemainingOf(self))]
    ELSE [self |-> self,
          error |-> IF self.state = HALF_OPEN /\ HalfOpenLimitReached(self.half_open_calls)
                    THEN HalfOpenLimitError
                    ELSE NoException]

\* CircuitBreaker._on_success (lines 152-182)
OnSuccess(self) ==
    IF self.state = HALF_OPEN
    THEN IF RecoveryComplete(self.half_open_calls + 1)
         THEN [state |-> CLOSED, failure_count |-> 0,
               last_failure_time |-> None, half_open_calls |-> 0]
         ELSE [self EXCEPT !.half_open_calls = self.half_open_calls + 1]
    ELSE IF self.state = CLOSED
         THEN [self EXCEPT !.failure_count = CountAfterClosedSuccess(self.failure_count)]
         ELSE self

\* CircuitBreaker._on_failure (lines 184-214)
OnFailure(self) ==
    LET counted == [self EXCEPT !.failure_count = self.failure_count + 1,
                                !.last_failure_time = now]
    IN IF self.state = HALF_OPEN
       THEN [counted EXCEPT !.state = OPEN, !.half_open_calls = 0]
       ELSE IF self.state = CLOSED /\ ThresholdReached(counted.failure_count)
            THEN [counted EXCEPT !.state = OPEN]
            ELSE counted

(* ---------------- LLMInterface.chat_completion ---------------- *)

\* what chat_completion gives its caller
NoReply == [kind |-> "none", msg |-> "", cause |-> NoException]
Content == [kind |-> "returned", msg |-> "Success", cause |-> NoException]

\* the ValueErrors of lines 128-153, raised before the try
InvalidRequest == [kind |-> "ValueError", msg |-> "invalid request", cause |-> NoException]

\* lines 181-192: raise RuntimeError(fallback_message) from e
FallbackError(e) ==
    [kind |-> "RuntimeError", msg |-> "The AI service is temporarily unavailable", cause |-> e]

\* lines 194-196: raise RuntimeError("Failed to generate completion: ...") from e
CompletionFailed(e) ==
    [kind |-> "RuntimeError", msg |-> "Failed to generate completion", cause |-> e]

\* the two except clauses of lines 181 and 194
ChatCompletionError(e) ==
    IF e.type = "CircuitBreakerError" THEN FallbackError(e) ELSE CompletionFailed(e)

\* self.circuit_breaker of client c
BreakerOf(c) == heap[llm[c]]

\* nothing outside the clients and the clock is touched by a client
client_frame == <<breaker, config, callers, history, probes>>

\* variant: one module-level breaker shared by every LLMInterface
LLMInterface_init_shared(c) ==
    /\ llm[c] = 0
    /\ IF Len(heap) = 0
       THEN heap' = Append(heap, NewBreaker)
       ELSE UNCHANGED heap
    /\ llm' = [llm EXCEPT ![c] = 1]
    /\ UNCHANGED <<cpc, reply, now, response, client_frame>>

\* LLMInterface.__init__ (lines 53-58): self.circuit_breaker = CircuitBreaker()
LLMInterface_init(c) ==
    /\ llm[c] = 0
    /\ heap' = Append(heap, NewBreaker)
    /\ llm' = [llm EXCEPT ![c] = Len(heap) + 1]
    /\ UNCHANGED <<cpc, reply, now, response, client_frame>>

\* variant: _call_llm is called directly, not through circuit_breaker.call
chat_completion_unguarded(c) ==
    /\ llm[c] # 0
    /\ cpc[c] = "idle"
    /\ \E valid \in BOOLEAN :
          IF ~valid
          THEN /\ reply' = [reply EXCEPT ![c] = InvalidRequest]
               /\ UNCHANGED <<heap, cpc>>
          ELSE /\ cpc' = [cpc EXCEPT ![c] = "provider"]
               /\ reply' = [reply EXCEPT ![c] = NoReply]
               /\ UNCHANGED heap
    /\ UNCHANGED <<llm, now, response, client_frame>>

\* LLMInterface.chat_completion up to the start of litellm.completion
\* (lines 128-175): the validation, then the gate of circuit_breaker.call
chat_completion(c) ==
    /\ llm[c] # 0
    /\ cpc[c] = "idle"
    /\ \E valid \in BOOLEAN :
          IF ~valid
          THEN /\ reply' = [reply EXCEPT ![c] = InvalidRequest]
               /\ UNCHANGED <<heap, cpc>>
          ELSE LET gate == Gate(BreakerOf(c))
               IN /\ heap' = [heap EXCEPT ![llm[c]] = gate.self]
                  /\ IF gate.error # NoException
                     THEN /\ reply' = [reply EXCEPT ![c] = ChatCompletionError(gate.error)]
                          /\ UNCHANGED cpc
                     ELSE /\ cpc' = [cpc EXCEPT ![c] = "provider"]
                          /\ reply' = [reply EXCEPT ![c] = NoReply]
    /\ UNCHANGED <<llm, now, response, client_frame>>

\* litellm.completion returned (lines 163-179): _on_success, the content is returned
completion_returns(c) ==
    /\ cpc[c] = "provider"
    /\ heap' = [heap EXCEPT ![llm[c]] = OnSuccess(BreakerOf(c))]
    /\ cpc' = [cpc EXCEPT ![c] = "idle"]
    /\ reply' = [reply EXCEPT ![c] = Content]
    /\ UNCHANGED <<llm, now, response, client_frame>>

\* litellm.completion raised e: _on_failure, raise e (circuit_breaker.py
\* lines 136-138), caught at line 194 of chat_completion
completion_raises(c, e) ==
    /\ cpc[c] = "provider"
    /\ BreakerOf(c).failure_count < MaxFailureCount
    /\ heap' = [heap EXCEPT ![llm[c]] = OnFailure(BreakerOf(c))]
    /\ cpc' = [cpc EXCEPT ![c] = "idle"]
    /\ reply' = [reply EXCEPT ![c] = ChatCompletionError(Reraise(e))]
    /\ UNCHANGED <<llm, now, response, client_frame>>

(* ---------------- POST /query/ (src/api/query.py) ---------------- *)

\* no query answered yet
NoResponse == [status |-> 0, error |-> "none", detail |-> "", retry_after |-> 0]

\* the QueryResponse returned at line 118
QueryAnswered == [status |-> 200, error |-> "none", detail |-> "", retry_after |-> 0]

\* CircuitBreakerOpenError (src/api/exceptions.py, lines 73-82)
CircuitBreakerOpenError ==
    [status |-> 503, error |-> "CircuitBreakerOpenError",
     detail |-> "LLM service temporarily unavailable", retry_after |-> 60]

\* QueryProcessingError (src/api/exceptions.py, lines 59-70), raised at line 126
QueryProcessingError(e) ==
    [status |-> 500, error |-> "QueryProcessingError", detail |-> e.msg, retry_after |-> 0]

\* the two except clauses of process_query (lines 120-126)
ProcessQueryError(e) ==
    IF e.type = "CircuitBreakerError" THEN CircuitBreakerOpenError ELSE QueryProcessingError(e)

\* What runner._query_async (src/agent/runner.py, lines 90-149) gives
\* process_query: the answer (NoException), or the exception of the agent
\* run, re-raised at line 149.  The agent's model is google.adk's LiteLlm
\* (src/agent/rag_agent.py, lines 100-106): its calls of the provider do not
\* pass through LLMInterface.circuit_breaker, so the exception is the
\* provider's own, whatever the state of any breaker.
AgentOutcomes == {NoException} \cup OpExceptions

\* process_query (src/api/query.py, lines 81-126)
process_query ==
    /\ \E outcome \in AgentOutcomes :
          response' = IF outcome = NoException
                      THEN QueryAnswered
                      ELSE ProcessQueryError(outcome)
    /\ UNCHANGED <<llm, heap, cpc, reply, now, client_frame>>

\* datetime.now() advances by one second, up to MaxTime
ClientTick ==
    /\ now < MaxTime
    /\ now' = now + 1
    /\ UNCHANGED <<clients, client_frame>>

ClientNext ==
    \/ \E c \in Clients : LLMInterface_init(c)
    \/ \E c \in Clients : chat_completion(c)
    \/ \E c \in Clients : completion_returns(c)
    \/ \E c \in Clients : \E e \in OpExceptions : completion_raises(c, e)
    \/ process_query
    \/ ClientTick

\* the settings every breaker is constructed from (the largest of the
\* model), the probes idle, and no client constructed yet
ClientStart ==
    /\ failure_threshold = MaxThreshold
    /\ timeout = MaxTimeout
    /\ half_open_max_calls = MaxHalfOpen
    /\ state = CLOSED
    /\ failure_count = 0
    /\ last_failure_time = None
    /\ half_open_calls = 0
    /\ now = 0
    /\ pc = [t \in Threads |-> "idle"]
    /\ invoked = [t \in Threads |-> FALSE]
    /\ op_exc = [t \in Threads |-> NoException]
    /\ exc = [t \in Threads |-> NoException]
    /\ episode = "fresh"
    /\ pattern = "clean"
    /\ resets = 0
    /\ NoTrials
    /\ ProbesIdle
    /\ ClientsIdle

\* two LLMInterface clients calling their providers
ClientSpec == ClientStart /\ [][ClientNext]_vars

(* ---------------- callers that keep calling ---------------- *)

\* a breaker with the largest configuration of the model, newly constructed
RecoveryStart ==
    /\ failure_threshold = MaxThreshold
    /\ timeout = MaxTimeout
    /\ half_open_max_calls = MaxHalfOpen
    /\ state = CLOSED
    /\ failure_count = 0
    /\ last_failure_time = None
    /\ half_open_calls = 0
    /\ now = 0
    /\ pc = [t \in Threads |-> "idle"]
    /\ invoked = [t \in Threads |-> FALSE]
    /\ op_exc = [t \in Threads |-> NoException]
    /\ exc = [t \in Threads |-> NoException]
    /\ episode = "fresh"
    /\ pattern = "clean"
    /\ resets = 0
    /\ NoTrials
    /\ ProbesIdle
    /\ ClientsIdle

\* some caller makes a call (lines 101-132)
SomeCall == \E t \in Threads : call(t)

\* some operation in flight ends and its outcome is recorded (lines 132-138)
SomeOutcome ==
    \E t \in Threads : func_returns(t) \/ \E e \in OpExceptions : func_raises(t, e)

\* The breaker used by callers that keep calling: time keeps advancing, a
\* call is made again and again, and an operation in flight ends.
RecoverySpec ==
    /\ RecoveryStart
    /\ [][Next]_vars
    /\ WF_vars(Tick)
    /\ WF_vars(SomeCall)
    /\ WF_vars(SomeOutcome)

(* ======================================================================= *)
(* Properties                                                              *)
(* ======================================================================= *)

\* thread t takes its gate step (lines 101-132): only call(t) changes what
\* t's caller sees while t has no operation in flight
GateStep(t) ==
    /\ pc[t] # "running"
    /\ <<pc[t], invoked[t], op_exc[t], exc[t]>>' # <<pc[t], invoked[t], op_exc[t], exc[t]>>

\* thread t's operation returns and its success is recorded (lines 132-134)
SuccessStep(t) == pc[t] = "running" /\ pc'[t] = "returned"

\* thread t's operation raises and its failure is recorded (lines 136-138)
FailureStep(t) == pc[t] = "running" /\ pc'[t] = "raised"

\* the cooldown is running: a failure is on record, less than timeout ago
CooldownRunning == last_failure_time # None /\ Elapsed < timeout

\* the cooldown is over
CooldownElapsed == last_failure_time # None /\ Elapsed >= timeout

\* C1: a call made while the state is OPEN and less than timeout seconds
\* have elapsed since last_failure_time raises CircuitBreakerError, never an
\* exception of the wrapped operation, and the operation is not invoked.
C1_OpenRejectsWithinCooldown ==
    [][\A t \in Threads :
          (GateStep(t) /\ state = OPEN /\ CooldownRunning)
             => /\ pc'[t] = "rejected"
                /\ exc'[t].type = "CircuitBreakerError"
                /\ exc'[t] \notin OpExceptions
                /\ ~invoked'[t]
                /\ op_exc'[t] = NoException]_vars

C1_Witness ==
    \E t \in Threads :
        /\ state = OPEN /\ CooldownRunning
        /\ pc[t] = "rejected" /\ ~invoked[t]
        /\ exc[t].type = "CircuitBreakerError" /\ exc[t].retry > 0

\* C2: from CLOSED with failure_count 0, failure_threshold - 1 consecutive
\* failing calls leave the breaker CLOSED with failure_count =
\* failure_threshold - 1 and the failure_threshold-th opens it with
\* failure_count = failure_threshold: a CLOSED breaker always has fewer than
\* failure_threshold failures counted, and each failure recorded while CLOSED
\* adds one and opens the breaker exactly when the count reaches the threshold.
C2_ThresholdBoundary ==
    /\ [](state = CLOSED => failure_count < failure_threshold)
    /\ [][\A t \in Threads :
             (FailureStep(t) /\ state = CLOSED)
                => /\ failure_count' = failure_count + 1
                   /\ state' = IF failure_count + 1 = failure_threshold
                               THEN OPEN ELSE CLOSED]_vars

C2_Witness ==
    /\ failure_threshold >= 2
    /\ state = OPEN
    /\ failure_count = failure_threshold
    /\ \E t \in Threads : pc[t] = "raised"

\* C3: failures are consecutive-only: a success recorded while CLOSED sets
\* failure_count to 0, and for failure_threshold > 1 a sequence of outcomes
\* in which no two failures follow each other never opens the breaker.
C3_ConsecutiveOnly ==
    /\ []((failure_threshold > 1 /\ pattern # "repeated") => state = CLOSED)
    /\ [][\A t \in Threads :
             (SuccessStep(t) /\ state = CLOSED)
                => (failure_count' = 0 /\ state' = CLOSED)]_vars

C3_Witness ==
    /\ failure_threshold > 1
    /\ pattern = "clean"
    /\ state = CLOSED
    /\ failure_count = 0
    /\ last_failure_time # None
    /\ \E t \in Threads : pc[t] = "returned"

\* C4: a call arriving at an OPEN breaker when the time elapsed since
\* last_failure_time is >= timeout (exactly equal included, and at once when
\* timeout is 0) is not rejected: the breaker becomes HALF_OPEN with
\* half_open_calls 0 and the wrapped operation is invoked.
C4_CooldownElapsedAdmitsTrial ==
    [][\A t \in Threads :
          (GateStep(t) /\ state = OPEN /\ CooldownElapsed)
             => /\ state' = HALF_OPEN
                /\ half_open_calls' = 0
                /\ pc'[t] = "running"
                /\ invoked'[t]
                /\ exc'[t] = NoException]_vars

C4_Witness ==
    /\ timeout > 0
    /\ state = HALF_OPEN
    /\ half_open_calls = 0
    /\ last_failure_time # None
    /\ Elapsed = timeout
    /\ \E t \in Threads : pc[t] = "running" /\ invoked[t]

\* C5: with sequential callers (no other operation in flight), a successful
\* trial recorded in HALF_OPEN adds one to half_open_calls and leaves the
\* breaker HALF_OPEN while the count stays below half_open_max_calls; the
\* success that brings the count to half_open_max_calls closes the breaker
\* with failure_count 0, half_open_calls 0 and last_failure_time cleared, the
\* state the breaker had right after construction.
C5_HalfOpenRecovery ==
    [][\A t \in Threads :
          (/\ SuccessStep(t)
           /\ state = HALF_OPEN
           /\ \A u \in Threads \ {t} : pc[u] # "running")
             => IF half_open_calls + 1 < half_open_max_calls
                THEN /\ state' = HALF_OPEN
                     /\ half_open_calls' = half_open_calls + 1
                     /\ UNCHANGED <<failure_count, last_failure_time>>
                ELSE /\ state' = CLOSED
                     /\ failure_count' = 0
                     /\ half_open_calls' = 0
                     /\ last_failure_time' = None
                     /\ breaker' = InitialBreaker]_vars

C5_Witness ==
    /\ episode = "recovered"
    /\ half_open_max_calls >= 2
    /\ breaker = InitialBreaker
    /\ \A t \in Threads : pc[t] # "running"
    /\ \E t \in Threads : pc[t] = "returned"

\* C6: one failing trial recorded while the breaker is HALF_OPEN moves it
\* back to OPEN at once, with half_open_calls 0 and last_failure_time the
\* time of that failure, whatever number of trial successes was counted.
C6_HalfOpenFailureReopens ==
    [][\A t \in Threads :
          (FailureStep(t) /\ state = HALF_OPEN)
             => /\ state' = OPEN
                /\ half_open_calls' = 0
                /\ last_failure_time' = now]_vars

C6_Witness ==
    /\ state = OPEN
    /\ episode = "tripped"
    /\ half_open_calls = 0
    /\ failure_count > failure_threshold
    /\ last_failure_time = now
    /\ timeout > 0
    /\ \E t \in Threads : pc[t] = "raised"
    /\ \E u \in Threads : pc[u] = "returned"

\* C7: when an admitted operation raises, call() raises that same exception,
\* type and message unchanged, after recording exactly one failure:
\* failure_count goes up by 1 and last_failure_time is the time of the failure.
C7_ExceptionPropagates ==
    [][\A t \in Threads :
          FailureStep(t)
             => /\ op_exc'[t] \in OpExceptions
                /\ exc'[t] = op_exc'[t]
                /\ exc'[t].type = op_exc'[t].type
                /\ exc'[t].msg = op_exc'[t].msg
                /\ failure_count' = failure_count + 1
                /\ last_failure_time' = now]_vars

C7_Witness ==
    \E t \in Threads :
        /\ pc[t] = "raised"
        /\ invoked[t]
        /\ exc[t].type = "ValueError"
        /\ exc[t].msg = "Custom error message"
        /\ failure_count >= 1
        /\ last_failure_time = now

\* C8 as stated: state == OPEN if and only if failure_count >=
\* failure_threshold was reached while CLOSED (or a HALF_OPEN trial failed)
\* and the cooldown has not yet elapsed (read on the configurations the
\* settings validator accepts, timeout > 0).
C8_OpenIffTrippedAndCooling ==
    timeout > 0 => ((state = OPEN) <=> (episode = "tripped" /\ CooldownRunning))

\* C8 amended: whenever the threshold was reached while CLOSED (or a
\* HALF_OPEN trial failed) and the cooldown has not yet elapsed the state is
\* OPEN, and the state is OPEN only after such an opening; but the breaker
\* stays OPEN after the cooldown has elapsed until a call arrives (which
\* makes it HALF_OPEN) or reset() is called.
C8_OpenUntilNextCall ==
    /\ []((episode = "tripped" /\ CooldownRunning) => state = OPEN)
    /\ [](state = OPEN => episode = "tripped")
    /\ [][(state = OPEN /\ state' # OPEN)
             => \/ /\ state' = HALF_OPEN
                   /\ CooldownElapsed
                   /\ \E t \in Threads : GateStep(t) /\ pc'[t] = "running"
                \/ /\ breaker' = InitialBreaker
                   /\ episode' = "fresh"]_vars

C8_Witness ==
    /\ state = OPEN
    /\ episode = "tripped"
    /\ timeout > 0
    /\ CooldownElapsed
    /\ \E t \in Threads : pc[t] = "raised"

\* C9: in every state reachable by any interleaving of call() and reset(),
\* state == CLOSED implies half_open_calls == 0.
C9_ClosedHasNoHalfOpenCalls ==
    state = CLOSED => half_open_calls = 0

C9_Witness ==
    /\ state = CLOSED
    /\ episode = "recovered"
    /\ half_open_max_calls >= 2
    /\ half_open_calls = 0

\* C10: in every state reachable by any interleaving of call() and reset(),
\* outcomes of in-flight calls recorded after a state change included,
\* state == OPEN implies failure_count >= failure_threshold.
C10_OpenHasThresholdFailures ==
    state = OPEN => failure_count >= failure_threshold

C10_Witness ==
    /\ state = OPEN
    /\ failure_count >= failure_threshold
    /\ \E t \in Threads : pc[t] = "returned" /\ invoked[t]
    /\ \E u \in Threads : pc[u] = "raised"

\* C11: reset() can be called in every reachable state and yields state
\* CLOSED, failure_count 0, half_open_calls 0 and last_failure_time none;
\* it is idempotent: after one, two or more reset() calls in a row the
\* breaker is in that same state.
C11_ResetIdempotent ==
    /\ ENABLED reset
    /\ resets >= 1 => breaker = InitialBreaker

C11_Witness ==
    /\ resets >= 2
    /\ breaker = InitialBreaker
    /\ \E t \in Threads : pc[t] = "rejected" /\ exc[t].type = "CircuitBreakerError"
    /\ \E u \in Threads : pc[u] = "running"

\* C12: a call arriving while the state is HALF_OPEN and half_open_calls has
\* reached half_open_max_calls is rejected with the half-open-limit
\* CircuitBreakerError, the wrapped operation is not invoked.
C12_HalfOpenLimitRejects ==
    [][\A t \in Threads :
          (/\ GateStep(t)
           /\ state = HALF_OPEN
           /\ half_open_calls >= half_open_max_calls)
             => /\ pc'[t] = "rejected"
                /\ exc'[t] = HalfOpenLimitError
                /\ exc'[t].type = "CircuitBreakerError"
                /\ ~invoked'[t]
                /\ op_exc'[t] = NoException]_vars

C12_Witness ==
    /\ state = HALF_OPEN
    /\ half_open_calls >= half_open_max_calls
    /\ \E t \in Threads :
          pc[t] = "rejected" /\ exc[t] = HalfOpenLimitError /\ ~invoked[t]

\* the rejection thread t gets in this step is the breaker-open one
OpenRejectionStep(t) ==
    GateStep(t) /\ pc'[t] = "rejected" /\ exc'[t].msg = OpenError(0).msg

\* timeout minus the time elapsed since last_failure_time when the step
\* ends (the second clock read), floored at 0
RemainingAtStepEnd ==
    LET r == timeout - (now' - last_failure_time)
    IN IF r > 0 THEN r ELSE 0

\* C13 as stated: every breaker-open rejection carries a remaining-wait
\* figure equal to timeout minus the time elapsed since last_failure_time,
\* floored at 0, and for a call rejected before the cooldown has elapsed the
\* figure is strictly positive and at most timeout.
C13_RemainingNonzero ==
    [][\A t \in Threads :
          OpenRejectionStep(t)
             => /\ exc'[t].retry = RemainingAtStepEnd
                /\ exc'[t].retry > 0
                /\ exc'[t].retry <= timeout]_vars

\* C13 amended: the figure is timeout minus the time elapsed since
\* last_failure_time when the message is built, floored at 0, hence between
\* 0 and timeout; it is strictly positive when the clock did not advance
\* between the cooldown check and the building of the message, and it is 0
\* only if the cooldown ended in between.
C13_RemainingFlooredEstimate ==
    [][\A t \in Threads :
          OpenRejectionStep(t)
             => /\ CooldownRunning
                /\ exc'[t].retry = RemainingAtStepEnd
                /\ exc'[t].retry >= 0
                /\ exc'[t].retry <= timeout
                /\ now' = now => exc'[t].retry > 0
                /\ exc'[t].retry = 0 => now' - last_failure_time >= timeout]_vars

C13_Witness ==
    /\ state = OPEN
    /\ timeout > 0
    /\ last_failure_time # None
    /\ Elapsed > timeout
    /\ \E t \in Threads :
          pc[t] = "rejected" /\ exc[t].msg = OpenError(0).msg /\ exc[t].retry = 0

\* what a dependency check is expected to say of the cluster and of the endpoint
EsUp == es_env \in {"green", "yellow"}
LmUp(r) == lm_env[r] = "200"

C15_NoExceptionEscapes ==
    /\ [](\A r \in Runs : ~result[r].raised)
    /\ [][readiness =>
             \A r \in Runs :
                /\ ~EsUp => (result'[r].es = "unhealthy" /\ result'[r].status = "unhealthy")
                /\ ~LmUp(r) => (result'[r].lm = "unhealthy" /\ result'[r].status = "unhealthy")]_vars
    /\ [][(startup /\ ~EsUp) =>
             \A r \in Runs :
                result'[r].status = IF startup_complete[r] THEN "healthy" ELSE "unhealthy"]_vars
    /\ [][liveness =>
             \A r \in Runs :
                /\ result'[r].status = "healthy"
                /\ ~result'[r].es_checked
                /\ ~result'[r].lm_checked]_vars

C15_Witness ==
    /\ es_env = "unreachable"
    /\ lm_env["a"] = "timeout"
    /\ lm_env["b"] = "unreachable"
    /\ \A r \in Runs :
          /\ result[r].probe = "liveness"
          /\ result[r].status = "healthy"
          /\ ~result[r].raised

\* C16: startup() is a one-way latch: a startup() call that returns healthy
\* leaves startup_complete true; once true it stays true through liveness,
\* readiness and startup calls and dependency outages, every later startup()
\* returns healthy without making the search-engine check, and only
\* reset_startup() sets the flag back to false.
C16_StartupLatch ==
    /\ [][startup =>
             \A r \in Runs :
                /\ result'[r].status = "healthy" => startup_complete'[r]
                /\ startup_complete[r] =>
                      /\ startup_complete'[r]
                      /\ result'[r].status = "healthy"
                      /\ ~result'[r].es_checked]_vars
    /\ [][(\E r \in Runs : startup_complete[r] /\ ~startup_complete'[r])
             => reset_startup]_vars

C16_Witness ==
    /\ ~EsUp
    /\ \A r \in Runs :
          /\ startup_complete[r]
          /\ result[r].probe = "startup"
          /\ result[r].status = "healthy"
          /\ ~result[r].es_checked

\* C17: a startup() call whose search-engine check fails returns an
\* unhealthy result with an error message and leaves startup_complete false;
\* while the flag is false every startup() call makes the check again, and
\* the first that finds the cluster healthy sets the flag.
C17_StartupRetries ==
    [][startup =>
          \A r \in Runs :
             ~startup_complete[r] =>
                /\ result'[r].es_checked
                /\ ~EsUp => /\ result'[r].status = "unhealthy"
                            /\ result'[r].error # ""
                            /\ ~startup_complete'[r]
                /\ EsUp => /\ result'[r].status = "healthy"
                           /\ startup_complete'[r]]_vars

C17_Witness ==
    /\ es_env = "red"
    /\ \A r \in Runs :
          /\ ~startup_complete[r]
          /\ result[r].probe = "startup"
          /\ result[r].status = "unhealthy"
          /\ result[r].error = "Elasticsearch not accessible"
          /\ result[r].es_checked

\* C18: the result of startup() and the value of startup_complete depend on
\* the search-engine check only: two runs given the same calls and the same
\* cluster, with LM endpoints of different health, have the same
\* startup_complete and get the same answers from startup().
C18_StartupIgnoresLm ==
    \A r1, r2 \in Runs :
       /\ startup_complete[r1] = startup_complete[r2]
       /\ result[r1].probe = "startup" => result[r1] = result[r2]

C18_Witness ==
    /\ LmUp("a") /\ lm_env["b"] = "unreachable"
    /\ startup_complete["a"] /\ startup_complete["b"]
    /\ result["a"].probe = "startup"
    /\ result["a"].status = "healthy"
    /\ result["a"].es_checked

\* a step of client c: one of the steps of its chat_completion
ClientStep(c) ==
    \/ chat_completion(c)
    \/ completion_returns(c)
    \/ \E e \in OpExceptions : completion_raises(c, e)

\* C19: each LLMInterface owns its own CircuitBreaker: two clients never
\* hold the same breaker object, and the state, failure_count,
\* last_failure_time and half_open_calls of a client's breaker change only
\* in a step of that client's own chat_completion, so calls, failures and
\* transitions on one client's breaker leave every other breaker as it was.
C19_OwnBreaker ==
    /\ [](\A c, d \in Clients :
             (c # d /\ llm[c] # 0 /\ llm[d] # 0) => llm[c] # llm[d])
    /\ [][\A d \in Clients :
             llm[d] # 0 =>
                /\ llm'[d] = llm[d]
                /\ BreakerOf(d)' # BreakerOf(d) => ClientStep(d)]_vars
    /\ [][\A c \in Clients :
             ClientStep(c) =>
                \A d \in Clients \ {c} :
                   llm[d] # 0 => BreakerOf(d)' = BreakerOf(d)]_vars

C19_Witness ==
    /\ llm["llm1"] # 0 /\ llm["llm2"] # 0
    /\ BreakerOf("llm1").state = OPEN
    /\ BreakerOf("llm1").failure_count = failure_threshold
    /\ reply["llm1"].msg = "The AI service is temporarily unavailable"
    /\ BreakerOf("llm2") = NewBreaker
    /\ reply["llm2"] = Content

\* C20: chat_completion reaches the LM provider only through its breaker:
\* a call the breaker rejects (OPEN within the cooldown) does not invoke the
\* provider and gives the caller the RuntimeError saying the AI service is
\* temporarily unavailable; the provider runs only after the gate admitted
\* the call; and every exception of the provider adds exactly one to the
\* breaker's failure_count and reaches the caller as a RuntimeError.
C20_ProviderBehindBreaker ==
    /\ [][\A c \in Clients :
             (/\ chat_completion(c)
              /\ reply'[c] # InvalidRequest
              /\ BreakerOf(c).state = OPEN
              /\ ~ShouldAttemptReset(BreakerOf(c)))
             => /\ cpc'[c] = "idle"
                /\ reply'[c].kind = "RuntimeError"
                /\ reply'[c].msg = "The AI service is temporarily unavailable"
                /\ reply'[c].cause.type = "CircuitBreakerError"
                /\ BreakerOf(c)' = BreakerOf(c)]_vars
    /\ [][\A c \in Clients :
             (cpc[c] = "idle" /\ cpc'[c] = "provider")
             => /\ BreakerOf(c)'.state \in {CLOSED, HALF_OPEN}
                /\ BreakerOf(c).state = OPEN => ShouldAttemptReset(BreakerOf(c))
                /\ BreakerOf(c)'.state = HALF_OPEN =>
                      BreakerOf(c)'.half_open_calls < half_open_max_calls]_vars
    /\ [][\A c \in Clients : \A e \in OpExceptions :
             completion_raises(c, e)
             => /\ BreakerOf(c)'.failure_count = BreakerOf(c).failure_count + 1
                /\ BreakerOf(c)'.last_failure_time = now
                /\ reply'[c].kind = "RuntimeError"
                /\ reply'[c].msg = "Failed to generate completion"
                /\ reply'[c].cause = e]_vars

C20_Witness ==
    \E c \in Clients :
       /\ llm[c] # 0
       /\ BreakerOf(c).state = OPEN
       /\ ~ShouldAttemptReset(BreakerOf(c))
       /\ BreakerOf(c).failure_count = failure_threshold
       /\ cpc[c] = "idle"
       /\ reply[c].kind = "RuntimeError"
       /\ reply[c].msg = "The AI service is temporarily unavailable"
       /\ reply[c].cause.type = "CircuitBreakerError"

\* some LLMInterface's breaker is OPEN and its cooldown is still running
SomeBreakerOpen ==
    \E c \in Clients :
       /\ llm[c] # 0
       /\ BreakerOf(c).state = OPEN
       /\ ~ShouldAttemptReset(BreakerOf(c))

\* C21: a query processed while the LLM circuit breaker is open is answered
\* with CircuitBreakerOpenError (HTTP 503 with a Retry-After header), not
\* with QueryProcessingError (HTTP 500).
C21_OpenBreakerAnswers503 ==
    [][(process_query /\ SomeBreakerOpen) =>
          /\ response'.status = 503
          /\ response'.error = "CircuitBreakerOpenError"
          /\ response'.retry_after > 0]_vars

\* operations in flight that were admitted as trials of this HALF_OPEN episode
TrialsInFlight == {t \in Threads : pc[t] = "running" /\ trial[t]}

\* C22: the lock is held for the gate check and for the recording of the
\* outcome only: a caller with no operation in flight can always make its
\* gate check, a caller whose operation ended can always record the outcome,
\* whatever the other callers' operations are doing, and a CLOSED breaker
\* admits a caller while another caller's operation is still running.
C22_GateNeverWaits ==
    /\ [](\A t \in Threads :
             /\ pc[t] # "running" => ENABLED call(t)
             /\ pc[t] = "running" => ENABLED func_returns(t))
    /\ [][\A t \in Threads :
             (/\ call(t)
              /\ state = CLOSED
              /\ \E u \in Threads \ {t} : pc[u] = "running")
             => pc'[t] = "running" /\ invoked'[t]]_vars

C22_Witness ==
    /\ \A t \in Threads : pc[t] = "running" /\ invoked[t]
    /\ state = CLOSED

C24_StateTransitions ==
    [][state' # state =>
          \/ <<state, state'>> \in { <<CLOSED, OPEN>>, <<OPEN, HALF_OPEN>>,
                                     <<HALF_OPEN, OPEN>>, <<HALF_OPEN, CLOSED>> }
          \/ reset /\ state' = CLOSED]_vars

C24_Witness ==
    /\ state = HALF_OPEN
    /\ episode = "tripped"
    /\ half_open_calls > 0
    /\ \E t \in Threads : pc[t] = "running" /\ ~trial[t]

\* C25: the recording of an outcome is atomic: every recorded failure adds
\* exactly one to failure_count under any interleaving, the counters are
\* never negative, and while only failures have been recorded since the
\* breaker was new (or reset), failure_count is the number of those failures.
C25_NoLostUpdate ==
    /\ [][\A t \in Threads : FailureStep(t) => failure_count' = failure_count + 1]_vars
    /\ [](/\ failure_count >= 0
          /\ half_open_calls >= 0
          /\ tally # None => failure_count = tally)

C25_Witness ==
    /\ timeout > 0
    /\ now = 0
    /\ tally = failure_threshold + 1
    /\ failure_count = tally
    /\ \A t \in Threads : pc[t] = "raised"

C27_RejectionChangesNothing ==
    [][\A t \in Threads :
          (call(t) /\ pc'[t] = "rejected")
          => /\ exc'[t].type = "CircuitBreakerError"
             /\ UNCHANGED breaker]_vars

C27_Witness ==
    /\ state = OPEN
    /\ failure_count = failure_threshold
    /\ last_failure_time # None
    /\ last_failure_time < now
    /\ \E t, u \in Threads :
          /\ pc[t] = "rejected" /\ exc[t].msg = "Circuit breaker is OPEN"
          /\ pc[u] = "rejected" /\ exc[u] = HalfOpenLimitError

\* C28: only the successes of calls admitted as trials of the HALF_OPEN
\* episode that is going on are counted in half_open_calls and can close the
\* breaker: the success of a call admitted earlier (while CLOSED, in flight
\* across the OPEN period) leaves half_open_calls and the state as they were.
\* Stated for the configurations the settings accept (timeout > 0).
C28_OnlyTrialsClose ==
    [][\A t \in Threads :
          (timeout > 0 /\ SuccessStep(t) /\ state = HALF_OPEN /\ ~trial[t])
          => /\ half_open_calls' = half_open_calls
             /\ state' = HALF_OPEN]_vars

\* C29: a failure recorded while the breaker is OPEN (the outcome of a call
\* admitted before it opened) leaves it OPEN, adds one to failure_count and
\* sets last_failure_time to the time of that failure, from which the
\* cooldown is then measured; a success recorded while OPEN changes nothing.
C29_OutcomesWhileOpen ==
    /\ [][\A t \in Threads :
             (FailureStep(t) /\ state = OPEN)
             => /\ state' = OPEN
                /\ failure_count' = failure_count + 1
                /\ last_failure_time' = now
                /\ half_open_calls' = half_open_calls]_vars
    /\ [][\A t \in Threads :
             (SuccessStep(t) /\ state = OPEN) => UNCHANGED breaker]_vars
    /\ [](state = OPEN => (should_attempt_reset <=> now - last_failure_time >= timeout))

C29_Witness ==
    /\ state = OPEN
    /\ 0 < now /\ now < timeout
    /\ last_failure_time = now
    /\ tally = failure_threshold + 1
    /\ failure_count = tally

\* C30: recovery is eventually reached: if from some point on no operation
\* fails, while time keeps advancing, callers keep calling and operations
\* end, then the breaker is eventually CLOSED and stays CLOSED; it cannot
\* stay OPEN or HALF_OPEN for ever.
C30_EventuallyClosed ==
    (<>[][\A t \in Threads : ~FailureStep(t)]_vars) => <>[](state = CLOSED)

C30_Witness ==
    /\ state = CLOSED
    /\ episode = "recovered"
    /\ failure_count = 0
    /\ last_failure_time = None
    /\ now = MaxTime
    /\ \A t \in Threads : pc[t] = "returned"

====
